---------------------------- MODULE Spec2Model ----------------------------
(***************************************************************************)
(* Model of the availability erasure-coding crate                          *)
(* (erasure-coding/src/lib.rs): code parameters, shard framing,            *)
(* obtain_chunks, reconstruct, the lazy ShardInput stream, and the         *)
(* merkle commitment (branches / branch_hash).                             *)
(*                                                                         *)
(* Collaborators that live outside lib.rs are modelled by their contract:  *)
(*  - the Reed-Solomon codec is a systematic MDS code (polynomial          *)
(*    evaluation / Lagrange interpolation) over the prime field            *)
(*    GF(FieldPrime), applied symbol by symbol; a "byte" of the model is   *)
(*    a symbol 0..FieldPrime-1;                                            *)
(*  - the payload serializer encodes (block_data, extrinsic) as two        *)
(*    length-prefixed byte vectors and decodes by pulling from an input;   *)
(*  - the trie is a radix-16 Patricia trie whose nodes are addressed by    *)
(*    an ideal (injective) hash;                                           *)
(*  - WrappedShard::new pads a buffer to even length.                      *)
(***************************************************************************)
EXTENDS Integers, Sequences, FiniteSets, TLC

VARIABLES pc, n_validators, block_data, extrinsic, chunks, input, result,
          trie, yielded, shard_input, delivered, last_read

vars == <<pc, n_validators, block_data, extrinsic, chunks, input, result,
          trie, yielded, shard_input, delivered, last_read>>

---------------------------------------------------------------------------
(* Bounds of the model.                                                    *)

\* largest validator count explored by the codec specification
MaxN == 7
\* longest block data / extrinsic explored
MaxData == 2
MaxExt == 1
\* largest validator count explored with chunks of damaged length
MaxLenN == 3
\* largest validator count explored with a damaged length prefix
MaxPrefixN == 4
\* code_params is explored on 0..MaxParamN and around MAX_VALIDATORS
MaxParamN == 60
\* merkle commitment: longest chunk list, number of chunk patterns - 1
MaxChunks == 33
MaxSeed == 1
\* ShardInput: number of regions, region length, read request size, reads
MaxShards == 3
MaxRegion == 2
MaxRead == 3
MaxReads == 3

\* const MAX_VALIDATORS = <galois_16::Field as Field>::ORDER (65536)
MAX_VALIDATORS == 65536
\* the validator count of the crate's tests and of the literal scenarios
TestValidators == 10
\* order of the stand-in prime field of the codec model (>= TestValidators)
FieldPrime == 11

Min(a, b) == IF a < b THEN a ELSE b

Ok(v) == [tag |-> "Ok", val |-> v]
Err(e) == [tag |-> "Err", val |-> e]
Panic(m) == [tag |-> "Panic", val |-> m]
IsOk(r) == r.tag = "Ok"
IsErr(r, e) == r.tag = "Err" /\ r.val = e

\* Option<T>: None is the empty sequence, Some(x) the one-element sequence
None == <<>>
Some(x) == <<x>>

Zeros(k) == [i \in 1..k |-> 0]

---------------------------------------------------------------------------
(* parity_codec stand-in: u32 little-endian, length-prefixed vectors.      *)

\* (len as u32).using_encoded: four little-endian bytes (every length of
\* the model is far below 2^32, where the cast truncates)
u32_encode(v) ==
    << v % 256, (v \div 256) % 256, (v \div 65536) % 256, (v \div 16777216) % 256 >>

\* u32::decode(&mut s): None when fewer than four bytes are left
u32_decode(s) ==
    IF Len(s) < 4 THEN None
    ELSE Some(s[1] + 256 * s[2] + 65536 * s[3] + 16777216 * s[4])

\* (block_data, extrinsic).encode(): each vector as length then bytes
Encode(bd, ex) == <<Len(bd)>> \o bd \o <<Len(ex)>> \o ex

---------------------------------------------------------------------------
(* WrappedShard                                                            *)

WrappedShard_new(data) == IF Len(data) % 2 # 0 THEN Append(data, 0) ELSE data

---------------------------------------------------------------------------
(* CodeParams                                                              *)

\* code_params with the two counts exchanged
code_params_swapped(n) ==
    IF n > MAX_VALIDATORS THEN Err("TooManyValidators")
    ELSE IF n = 0 THEN Err("EmptyValidators")
    ELSE LET n_faulty == (IF n >= 1 THEN n - 1 ELSE 0) \div 3
             n_good == n - n_faulty
         IN  Ok([data_shards |-> n_good - 1, parity_shards |-> n_faulty + 1])

\* code_params tolerating one fault too few
code_params_off_by_one(n) ==
    IF n > MAX_VALIDATORS THEN Err("TooManyValidators")
    ELSE IF n = 0 THEN Err("EmptyValidators")
    ELSE LET n_faulty == (IF n >= 2 THEN n - 2 ELSE 0) \div 3
             n_good == n - n_faulty
         IN  Ok([data_shards |-> n_faulty + 1, parity_shards |-> n_good - 1])

code_params(n) ==
    IF n > MAX_VALIDATORS THEN Err("TooManyValidators")
    ELSE IF n = 0 THEN Err("EmptyValidators")
    ELSE LET n_faulty == (IF n >= 1 THEN n - 1 ELSE 0) \div 3
             n_good == n - n_faulty
         IN  Ok([data_shards |-> n_faulty + 1, parity_shards |-> n_good - 1])

shard_len(params, base_len) ==
    (base_len \div params.data_shards) + (base_len % params.data_shards)

\* payload.chunks(size): consecutive slices of `size` bytes, the last shorter
PayloadChunks(payload, size) ==
    LET cnt == (Len(payload) + size - 1) \div size
    IN  [j \in 1..cnt |->
            SubSeq(payload, (j - 1) * size + 1, Min(j * size, Len(payload)))]

make_shards_for(params, payload) ==
    LET sl == shard_len(params, Len(payload))
        blank == WrappedShard_new(Zeros(sl + 4))
        total == params.data_shards + params.parity_shards
        pieces == PayloadChunks(payload, sl)
        Fill(data_chunk) ==
            LET room == Len(blank) - 4
                len == Min(Len(data_chunk), room)
            IN  u32_encode(len) \o SubSeq(data_chunk, 1, len) \o Zeros(room - len)
    IN  [j \in 1..total |-> IF j <= Len(pieces) THEN Fill(pieces[j]) ELSE blank]

---------------------------------------------------------------------------
(* Reed-Solomon codec over GF(FieldPrime): shard i (0-based) holds, symbol *)
(* by symbol, the value at point i of the polynomial of degree <           *)
(* data_shards through the data shards.                                    *)

GFSub(a, b) == (a - b + FieldPrime * FieldPrime) % FieldPrime
GFInv(a) == CHOOSE b \in 1..(FieldPrime - 1) : (a * b) % FieldPrime = 1

RECURSIVE GFProd(_, _)
GFProd(f, S) ==
    IF S = {} THEN 1
    ELSE LET j == CHOOSE k \in S : TRUE
         IN  (f[j] * GFProd(f, S \ {j})) % FieldPrime

RECURSIVE GFSum(_, _)
GFSum(f, S) ==
    IF S = {} THEN 0
    ELSE LET j == CHOOSE k \in S : TRUE
         IN  (f[j] + GFSum(f, S \ {j})) % FieldPrime

LagrangeCoef(X, i, x) ==
    GFProd([j \in X \ {i} |-> (GFSub(x, j) * GFInv(GFSub(i, j))) % FieldPrime],
           X \ {i})

\* the shard at point x from the shards at the points X (given as Some(..))
InterpolateShard(X, slots, x) ==
    LET coef == [i \in X |-> LagrangeCoef(X, i, x)]
        len == Len(slots[(CHOOSE i \in X : TRUE) + 1][1])
    IN  [k \in 1..len |->
            GFSum([i \in X |-> (coef[i] * slots[i + 1][1][k]) % FieldPrime], X)]

\* ReedSolomon::new(data_shards, parity_shards)
RS_new(data_shards, parity_shards) ==
    IF data_shards = 0 THEN Err("TooFewDataShards")
    ELSE IF data_shards + parity_shards > FieldPrime THEN Err("TooManyShards")
    ELSE Ok([data_shards |-> data_shards, parity_shards |-> parity_shards])

\* ReedSolomon::encode(&mut shards): parity from the data shards
RS_encode(rs, shards) ==
    LET total == rs.data_shards + rs.parity_shards
        X == 0..(rs.data_shards - 1)
        slots == [j \in 1..Len(shards) |-> Some(shards[j])]
    IN  IF Len(shards) < total THEN Err("TooFewShards")
        ELSE IF Len(shards) > total THEN Err("TooManyShards")
        ELSE IF \E j \in 1..total : Len(shards[j]) = 0 THEN Err("EmptyShard")
        ELSE IF \E j \in 1..total : Len(shards[j]) # Len(shards[1])
             THEN Err("IncorrectShardSize")
        ELSE Ok([j \in 1..total |->
                    IF j <= rs.data_shards THEN shards[j]
                    ELSE InterpolateShard(X, slots, j - 1)])

\* the k smallest elements of a set of numbers
RECURSIVE FirstK(_, _)
FirstK(S, k) ==
    IF k = 0 \/ S = {} THEN {}
    ELSE LET m == CHOOSE a \in S : \A b \in S : a <= b
         IN  {m} \cup FirstK(S \ {m}, k - 1)

\* ReedSolomon::reconstruct(&mut [Option<shard>]): fill every absent slot
RS_reconstruct(rs, slots) ==
    LET total == rs.data_shards + rs.parity_shards
        present == {i \in 0..(Len(slots) - 1) : slots[i + 1] # None}
        X == FirstK(present, rs.data_shards)
    IN  IF Len(slots) < total THEN Err("TooFewShards")
        ELSE IF Len(slots) > total THEN Err("TooManyShards")
        ELSE IF \E i \in present : Len(slots[i + 1][1]) = 0 THEN Err("EmptyShard")
        ELSE IF \E i, j \in present : Len(slots[i + 1][1]) # Len(slots[j + 1][1])
             THEN Err("IncorrectShardSize")
        ELSE IF Cardinality(present) = total THEN Ok(slots)
        ELSE IF Cardinality(present) < rs.data_shards THEN Err("TooFewShardsPresent")
        ELSE Ok([j \in 1..total |->
                    IF slots[j] # None THEN slots[j]
                    ELSE Some(InterpolateShard(X, slots, j - 1))])

\* CodeParams::make_encoder: the .expect() on ReedSolomon::new
make_encoder(params) ==
    LET rs == RS_new(params.data_shards, params.parity_shards)
    IN  IF IsOk(rs) THEN rs
        ELSE Panic("this struct is not created with invalid shard number; qed")

---------------------------------------------------------------------------
(* obtain_chunks                                                           *)

obtain_chunks(n, bd, ex) ==
    LET params == code_params(n)
        encoded == Encode(bd, ex)
    IN  IF ~IsOk(params) THEN params
        ELSE IF Len(encoded) = 0 THEN Err("BadPayload")
        ELSE LET shards == make_shards_for(params.val, encoded)
                 enc == make_encoder(params.val)
             IN  IF ~IsOk(enc) THEN enc
                 ELSE LET coded == RS_encode(enc.val, shards)
                      IN  IF IsOk(coded) THEN coded
                          ELSE Panic("Payload non-empty, shard sizes are uniform, and validator numbers checked; qed")

---------------------------------------------------------------------------
(* ShardInput: the lazy byte stream over the data shards' useful regions.  *)
(* A ShardInput value is [shards |-> the regions the iterator has not      *)
(* yielded yet, cur_shard |-> None or Some(<<region, in_shard>>)].         *)

NewShardInput(regions) == [shards |-> regions, cur_shard |-> None]

\* read() whose loop leaves an exhausted region in cur_shard
RECURSIVE ReadLoop_stuck(_, _, _, _)
ReadLoop_stuck(self, want, out, fuel) ==
    IF Len(out) = want THEN [self |-> self, out |-> out, returned |-> TRUE]
    ELSE IF fuel = 0 THEN [self |-> self, out |-> out, returned |-> FALSE]
    ELSE
      LET taken == IF self.cur_shard # None THEN self.cur_shard
                   ELSE IF Len(self.shards) > 0 THEN Some(<<Head(self.shards), 0>>)
                   ELSE None
          rest == IF self.cur_shard # None \/ Len(self.shards) = 0 THEN self.shards
                  ELSE Tail(self.shards)
      IN  IF taken = None
          THEN [self |-> [shards |-> rest, cur_shard |-> None], out |-> out,
                returned |-> TRUE]
          ELSE
            LET active_shard == taken[1][1]
                in_shard == taken[1][2]
            IN  IF in_shard >= Len(active_shard)
                THEN ReadLoop_stuck([shards |-> rest, cur_shard |-> taken], want, out,
                                    fuel - 1)
                ELSE
                  LET write_len == Min(want - Len(out), Len(active_shard) - in_shard)
                  IN  ReadLoop_stuck([shards |-> rest,
                                      cur_shard |-> Some(<<active_shard, in_shard + write_len>>)],
                                     want,
                                     out \o SubSeq(active_shard, in_shard + 1, in_shard + write_len),
                                     fuel - 1)

\* one pass of the loop of read(); fuel bounds the number of passes
RECURSIVE ReadLoop(_, _, _, _)
ReadLoop(self, want, out, fuel) ==
    IF Len(out) = want THEN [self |-> self, out |-> out, returned |-> TRUE]
    ELSE IF fuel = 0 THEN [self |-> self, out |-> out, returned |-> FALSE]
    ELSE
      LET taken == IF self.cur_shard # None THEN self.cur_shard
                   ELSE IF Len(self.shards) > 0 THEN Some(<<Head(self.shards), 0>>)
                   ELSE None
          rest == IF self.cur_shard # None \/ Len(self.shards) = 0 THEN self.shards
                  ELSE Tail(self.shards)
      IN  IF taken = None
          THEN [self |-> [shards |-> rest, cur_shard |-> None], out |-> out,
                returned |-> TRUE]
          ELSE
            LET active_shard == taken[1][1]
                in_shard == taken[1][2]
            IN  IF in_shard >= Len(active_shard)
                THEN ReadLoop([shards |-> rest, cur_shard |-> None], want, out, fuel - 1)
                ELSE
                  LET remaining_len_out == want - Len(out)
                      remaining_len_shard == Len(active_shard) - in_shard
                      write_len == Min(remaining_len_out, remaining_len_shard)
                  IN  ReadLoop([shards |-> rest,
                                cur_shard |-> Some(<<active_shard, in_shard + write_len>>)],
                               want,
                               out \o SubSeq(active_shard, in_shard + 1, in_shard + write_len),
                               fuel - 1)

\* upper bound on the loop passes of one read: each pass drops a region or
\* copies at least one byte
ReadFuel(self, want) == Len(self.shards) + want + 2

\* <ShardInput as codec::Input>::read(into) with into.len() = want
ShardInput_read(self, want) == ReadLoop(self, want, <<>>, ReadFuel(self, want))

\* Vec<u8>::decode: a length, then that many bytes; None on a short read
DecodeVec(self) ==
    LET l == ShardInput_read(self, 1)
    IN  IF Len(l.out) # 1 THEN [self |-> l.self, val |-> None]
        ELSE LET b == ShardInput_read(l.self, l.out[1])
             IN  IF Len(b.out) # l.out[1] THEN [self |-> b.self, val |-> None]
                 ELSE [self |-> b.self, val |-> Some(b.out)]

\* <(BlockData, Extrinsic)>::decode(&mut input)
Decode(self) ==
    LET bd == DecodeVec(self)
    IN  IF bd.val = None THEN None
        ELSE LET ex == DecodeVec(bd.self)
             IN  IF ex.val = None THEN None
                 ELSE Some(<<bd.val[1], ex.val[1]>>)

---------------------------------------------------------------------------
(* reconstruct                                                             *)

\* the closure reading the region from the start of the shard
Unframe_keep_prefix(x) ==
    LET data_len == u32_decode(x)
    IN  IF data_len = None THEN None
        ELSE IF Len(x) < data_len[1] THEN None
        ELSE Some(SubSeq(x, 1, data_len[1]))

\* the closure of filter_map: Some(useful region) or None
Unframe(x) ==
    LET data_len == u32_decode(x)
        s == SubSeq(x, 5, Len(x))
    IN  IF data_len = None THEN None
        ELSE IF Len(s) < data_len[1] THEN None
        ELSE Some(SubSeq(s, 1, data_len[1]))

\* iterator.filter_map(f) over a sequence
RECURSIVE FilterMapUnframe(_)
FilterMapUnframe(xs) ==
    IF Len(xs) = 0 THEN <<>>
    ELSE LET r == Unframe(Head(xs))
         IN  (IF r = None THEN <<>> ELSE <<r[1]>>) \o FilterMapUnframe(Tail(xs))

\* the loop testing the parity of each chunk's own length
RECURSIVE CollectShards_parity_of_chunk(_, _, _, _)
CollectShards_parity_of_chunk(n, items, shards, len) ==
    IF Len(items) = 0 THEN Ok(shards)
    ELSE
      LET chunk_data == Head(items).data
          chunk_idx == Head(items).idx
          sl == IF len = None THEN Len(chunk_data) ELSE len[1]
      IN  IF chunk_idx >= n THEN Err("ChunkIndexOutOfBounds")
          ELSE IF Len(chunk_data) % 2 # 0 THEN Err("UnevenLength")
          ELSE IF sl # Len(chunk_data) \/ sl = 0 THEN Err("NonUniformChunks")
          ELSE CollectShards_parity_of_chunk(n, Tail(items),
                             [shards EXCEPT ![chunk_idx + 1] = Some(WrappedShard_new(chunk_data))],
                             Some(sl))

\* the loop without the test for empty chunks
RECURSIVE CollectShards_no_empty_check(_, _, _, _)
CollectShards_no_empty_check(n, items, shards, len) ==
    IF Len(items) = 0 THEN Ok(shards)
    ELSE
      LET chunk_data == Head(items).data
          chunk_idx == Head(items).idx
          sl == IF len = None THEN Len(chunk_data) ELSE len[1]
      IN  IF chunk_idx >= n THEN Err("ChunkIndexOutOfBounds")
          ELSE IF sl % 2 # 0 THEN Err("UnevenLength")
          ELSE IF sl # Len(chunk_data) THEN Err("NonUniformChunks")
          ELSE CollectShards_no_empty_check(n, Tail(items),
                             [shards EXCEPT ![chunk_idx + 1] = Some(WrappedShard_new(chunk_data))],
                             Some(sl))

\* the for loop over chunks.into_iter().take(n_validators)
RECURSIVE CollectShards(_, _, _, _)
CollectShards(n, items, shards, len) ==
    IF Len(items) = 0 THEN Ok(shards)
    ELSE
      LET chunk_data == Head(items).data
          chunk_idx == Head(items).idx
          sl == IF len = None THEN Len(chunk_data) ELSE len[1]
      IN  IF chunk_idx >= n THEN Err("ChunkIndexOutOfBounds")
          ELSE IF sl % 2 # 0 THEN Err("UnevenLength")
          ELSE IF sl # Len(chunk_data) \/ sl = 0 THEN Err("NonUniformChunks")
          ELSE CollectShards(n, Tail(items),
                             [shards EXCEPT ![chunk_idx + 1] = Some(WrappedShard_new(chunk_data))],
                             Some(sl))

\* the shard slots after the codec's reconstruct, or the error returned
RecoverShards(n, items) ==
    LET params == code_params(n)
    IN  IF ~IsOk(params) THEN params
        ELSE
          LET got == CollectShards(n, SubSeq(items, 1, Min(Len(items), n)),
                                   [i \in 1..n |-> None], None)
              enc == make_encoder(params.val)
          IN  IF ~IsOk(got) THEN got
              ELSE IF ~IsOk(enc) THEN enc
              ELSE
                LET rec == RS_reconstruct(enc.val, got.val)
                IN  IF IsOk(rec) THEN rec
                    ELSE IF rec.val = "TooFewShardsPresent" THEN Err("NotEnoughChunks")
                    ELSE IF rec.val = "InvalidShardFlags" THEN Err("WrongValidatorCount")
                    ELSE IF rec.val = "TooManyShards" THEN Err("TooManyChunks")
                    ELSE IF rec.val = "EmptyShard"
                         THEN Panic("chunks are all non-empty; this is checked above; qed")
                    ELSE IF rec.val = "IncorrectShardSize"
                         THEN Panic("chunks are all same len; this is checked above; qed")
                    ELSE Panic("reed_solomon encoder returns no more variants for this function; qed")

\* the first data_shards slots, unwrapped
DataShards(n, slots) ==
    [j \in 1..code_params(n).val.data_shards |-> slots[j][1]]

reconstruct(n, items) ==
    LET rec == RecoverShards(n, items)
    IN  IF ~IsOk(rec) THEN rec
        ELSE
          LET decoded == Decode(NewShardInput(FilterMapUnframe(DataShards(n, rec.val))))
          IN  IF decoded = None THEN Err("BadPayload") ELSE Ok(decoded[1])

---------------------------------------------------------------------------
(* Trie engine: a radix-16 Patricia trie over nibble keys.  A node is      *)
(* [kind, partial, value, children]; a child is referred to by its hash,   *)
(* and the hash is ideal: H(node) stands for the digest of the node's      *)
(* encoding and determines the node.  Every node of a trie of              *)
(* index -> 32-byte hash entries encodes to 32 bytes or more, so no child  *)
(* is inlined in its parent.                                               *)

H(node) == [hash |-> node]
\* BlakeTwo256::hash(chunk)
Blake2(chunk) == [blake2 |-> chunk]

EmptyNode == [kind |-> "empty", partial |-> <<>>, value |-> None, children |-> <<>>]
LeafNode(partial, value) ==
    [kind |-> "leaf", partial |-> partial, value |-> Some(value), children |-> <<>>]
ExtNode(partial, child) ==
    [kind |-> "ext", partial |-> partial, value |-> None, children |-> <<Some(H(child))>>]
NoChildren == [k \in 1..16 |-> None]
BranchNode(children) ==
    [kind |-> "branch", partial |-> <<>>, value |-> None, children |-> children]

\* (i as u32).using_encoded, as nibbles, the high nibble of each byte first
KeyNibbles(i) ==
    LET b == u32_encode(i)
    IN  << b[1] \div 16, b[1] % 16, b[2] \div 16, b[2] % 16,
           b[3] \div 16, b[3] % 16, b[4] \div 16, b[4] % 16 >>

Drop(xs, k) == SubSeq(xs, k + 1, Len(xs))

RECURSIVE CommonPrefixLen(_, _)
CommonPrefixLen(a, b) ==
    IF Len(a) = 0 \/ Len(b) = 0 \/ Head(a) # Head(b) THEN 0
    ELSE 1 + CommonPrefixLen(Tail(a), Tail(b))

WithExt(prefix, node) == IF Len(prefix) = 0 THEN node ELSE ExtNode(prefix, node)

\* TrieDBMut::insert below `node`, for keys none of which is a prefix of
\* another (all keys are 8 nibbles)
RECURSIVE TrieInsert(_, _, _)
TrieInsert(node, key, value) ==
    CASE node.kind = "empty" -> LeafNode(key, value)
      [] node.kind = "leaf" ->
            LET c == CommonPrefixLen(node.partial, key)
            IN  IF c = Len(node.partial) /\ c = Len(key) THEN LeafNode(key, value)
                ELSE WithExt(SubSeq(key, 1, c),
                       BranchNode([NoChildren EXCEPT
                         ![node.partial[c + 1] + 1] =
                             Some(H(LeafNode(Drop(node.partial, c + 1), node.value[1]))),
                         ![key[c + 1] + 1] =
                             Some(H(LeafNode(Drop(key, c + 1), value)))]))
      [] node.kind = "ext" ->
            LET c == CommonPrefixLen(node.partial, key)
                child == node.children[1][1].hash
            IN  IF c = Len(node.partial)
                THEN ExtNode(node.partial, TrieInsert(child, Drop(key, c), value))
                ELSE WithExt(SubSeq(key, 1, c),
                       BranchNode([NoChildren EXCEPT
                         ![node.partial[c + 1] + 1] =
                             Some(H(WithExt(Drop(node.partial, c + 1), child))),
                         ![key[c + 1] + 1] =
                             Some(H(LeafNode(Drop(key, c + 1), value)))]))
      [] node.kind = "branch" ->
            LET slot == key[1] + 1
                child == IF node.children[slot] = None THEN EmptyNode
                         ELSE node.children[slot][1].hash
            IN  BranchNode([node.children EXCEPT
                              ![slot] = Some(H(TrieInsert(child, Tail(key), value)))])

\* the nodes a committed trie leaves in its MemoryDB
RECURSIVE TrieNodes(_)
TrieNodes(node) ==
    {node} \cup UNION { TrieNodes(node.children[k][1].hash) :
                          k \in {k \in 1..Len(node.children) : node.children[k] # None} }

\* Trie::get_with(key, recorder) from the node with hash `ref` over the
\* node store db: [res |-> Ok(None | Some(value)) or Err, nodes |-> the
\* nodes loaded, in order]
RECURSIVE TrieGet(_, _, _, _)
TrieGet(db, ref, key, nodes) ==
    IF ref.hash \notin db THEN [res |-> Err("IncompleteDatabase"), nodes |-> nodes]
    ELSE
      LET node == ref.hash
          seen == Append(nodes, node)
      IN  CASE node.kind = "empty" -> [res |-> Ok(None), nodes |-> seen]
            [] node.kind = "leaf" ->
                  [res |-> Ok(IF node.partial = key THEN node.value ELSE None),
                   nodes |-> seen]
            [] node.kind = "ext" ->
                  IF Len(key) >= Len(node.partial)
                     /\ SubSeq(key, 1, Len(node.partial)) = node.partial
                  THEN TrieGet(db, node.children[1][1], Drop(key, Len(node.partial)), seen)
                  ELSE [res |-> Ok(None), nodes |-> seen]
            [] node.kind = "branch" ->
                  IF Len(key) = 0 THEN [res |-> Ok(node.value), nodes |-> seen]
                  ELSE IF node.children[key[1] + 1] = None
                  THEN [res |-> Ok(None), nodes |-> seen]
                  ELSE TrieGet(db, node.children[key[1] + 1][1], Tail(key), seen)

\* TrieDB::new(db, root): the root node must be in the store
TrieDB_new(db, root) ==
    IF root.hash \in db THEN Ok([db |-> db, root |-> root]) ELSE Err("InvalidStateRoot")

\* MemoryDB::default() holds the null node
MemoryDB_default == {EmptyNode}

---------------------------------------------------------------------------
(* branches / Branches::next / branch_hash                                 *)

\* the trie after inserting index -> hash(chunk) for the first k chunks
RECURSIVE InsertChunks(_, _)
InsertChunks(cs, k) ==
    IF k = 0 THEN EmptyNode
    ELSE TrieInsert(InsertChunks(cs, k - 1), KeyNibbles(k - 1), Blake2(cs[k]))

\* the trie keyed by 1..n instead of 0..n-1
RECURSIVE InsertChunks_from_one(_, _)
InsertChunks_from_one(cs, k) ==
    IF k = 0 THEN EmptyNode
    ELSE TrieInsert(InsertChunks_from_one(cs, k - 1), KeyNibbles(k), Blake2(cs[k]))

branches_from_one(cs) ==
    LET top == InsertChunks_from_one(cs, Len(cs))
    IN  [trie_storage |-> MemoryDB_default \cup TrieNodes(top),
         root |-> H(top),
         chunks |-> cs,
         current_pos |-> 0]

branches(cs) ==
    LET top == InsertChunks(cs, Len(cs))
    IN  [trie_storage |-> MemoryDB_default \cup TrieNodes(top),
         root |-> H(top),
         chunks |-> cs,
         current_pos |-> 0]

\* Branches::next: [self |-> the iterator afterwards, item |-> Option]
Branches_next(self) ==
    LET t == TrieDB_new(self.trie_storage, self.root)
        res == TrieGet(self.trie_storage, self.root, KeyNibbles(self.current_pos), <<>>)
    IN  IF ~IsOk(t)
        THEN [self |-> self, item |-> Panic("Branches is only created with a valid memorydb that contains all nodes for the trie with given root; qed")]
        ELSE IF ~IsOk(res.res)
        THEN [self |-> self, item |-> Panic("all nodes in trie present; qed")]
        ELSE IF res.res.val = None THEN [self |-> self, item |-> Ok(None)]
        ELSE IF self.current_pos >= Len(self.chunks)
        THEN [self |-> self, item |-> Panic("there is a one-to-one mapping of chunks to valid merkle branches; qed")]
        ELSE [self |-> [self EXCEPT !.current_pos = self.current_pos + 1],
              item |-> Ok(Some(<<res.nodes, self.chunks[self.current_pos + 1]>>))]

\* H256::decode of a stored value
H256_decode(raw_hash) == Some(raw_hash)

\* branch_hash reporting every failed lookup as out of bounds
branch_hash_unchecked(root, branch_nodes, index) ==
    LET trie_storage == MemoryDB_default \cup {branch_nodes[k] : k \in 1..Len(branch_nodes)}
        res == TrieGet(trie_storage, root, KeyNibbles(index), <<>>).res
    IN  IF ~IsOk(res) THEN Err("BranchOutOfBounds")
        ELSE IF res.val = None THEN Err("BranchOutOfBounds")
        ELSE Ok(H256_decode(res.val[1])[1])

branch_hash(root, branch_nodes, index) ==
    LET trie_storage == MemoryDB_default \cup {branch_nodes[k] : k \in 1..Len(branch_nodes)}
        t == TrieDB_new(trie_storage, root)
        res == TrieGet(trie_storage, root, KeyNibbles(index), <<>>).res
    IN  IF ~IsOk(t) THEN Err("InvalidBranchProof")
        ELSE IF ~IsOk(res) THEN Err("InvalidBranchProof")
        ELSE IF res.val = None THEN Err("BranchOutOfBounds")
        ELSE IF H256_decode(res.val[1]) = None THEN Err("InvalidBranchProof")
        ELSE Ok(H256_decode(res.val[1])[1])

---------------------------------------------------------------------------
(* Inputs explored.                                                        *)

PayloadBytes == {0, 1}
SeqsUpTo(S, k) == UNION {[1..m -> S] : m \in 0..k}

Unused == <<>>

\* the chunk of validator i as supplied to reconstruct
Item(i) == [data |-> chunks.val[i + 1], idx |-> i]

LastIdx == IF Len(input) = 0 THEN -1 ELSE input[Len(input)].idx

---------------------------------------------------------------------------
(* Specification SpecParams: code_params on validator counts.              *)

ParamInputs ==
    (0..MaxParamN) \cup ((MAX_VALIDATORS - 2)..(MAX_VALIDATORS + 2))

InitParams ==
    /\ pc = "start"
    /\ n_validators \in ParamInputs
    /\ block_data = Unused /\ extrinsic = Unused /\ chunks = Unused
    /\ input = Unused /\ result = Unused /\ trie = Unused /\ yielded = Unused
    /\ shard_input = Unused /\ delivered = Unused /\ last_read = Unused

CodeParams ==
    /\ pc = "start"
    /\ result' = code_params(n_validators)
    /\ pc' = "done"
    /\ UNCHANGED <<n_validators, block_data, extrinsic, chunks, input, trie,
                   yielded, shard_input, delivered, last_read>>

NextParams == CodeParams

SpecParams == InitParams /\ [][NextParams]_vars

---------------------------------------------------------------------------
(* Specification SpecCodec: obtain_chunks, then reconstruct from a subset  *)
(* of the untouched chunks.                                                *)

\* every payload for the small validator counts; for the validator count of
\* the crate's tests, block data of ones and the tests' empty extrinsic
InitCodec ==
    /\ pc = "start"
    /\ \/ /\ n_validators \in 0..MaxN
          /\ block_data \in SeqsUpTo(PayloadBytes, MaxData)
          /\ extrinsic \in SeqsUpTo(PayloadBytes, MaxExt)
       \/ /\ n_validators = TestValidators
          /\ block_data \in SeqsUpTo({1}, MaxData)
          /\ extrinsic = <<>>
    /\ chunks = Unused /\ input = <<>> /\ result = Unused
    /\ trie = Unused /\ yielded = Unused
    /\ shard_input = Unused /\ delivered = Unused /\ last_read = Unused

ObtainChunks ==
    /\ pc = "start"
    /\ chunks' = obtain_chunks(n_validators, block_data, extrinsic)
    /\ pc' = IF IsOk(chunks') THEN "encoded" ELSE "done"
    /\ UNCHANGED <<n_validators, block_data, extrinsic, input, result, trie,
                   yielded, shard_input, delivered, last_read>>

\* hand the untouched chunk of validator i to the caller's list
Supply(i) ==
    /\ pc = "encoded"
    /\ i > LastIdx
    /\ input' = Append(input, Item(i))
    /\ UNCHANGED <<pc, n_validators, block_data, extrinsic, chunks, result, trie,
                   yielded, shard_input, delivered, last_read>>

Reconstruct ==
    /\ pc = "encoded"
    /\ result' = reconstruct(n_validators, input)
    /\ pc' = "done"
    /\ UNCHANGED <<n_validators, block_data, extrinsic, chunks, input, trie,
                   yielded, shard_input, delivered, last_read>>

NextCodec ==
    \/ ObtainChunks
    \/ \E i \in 0..(n_validators - 1) : Supply(i)
    \/ Reconstruct

SpecCodec == InitCodec /\ [][NextCodec]_vars

---------------------------------------------------------------------------
(* Specification SpecLengths: reconstruct from chunks some of which have   *)
(* lost bytes, supplied in any order (distinct validators).                *)

\* what a chunk may have suffered before it is supplied
Damage(kind, chunk) ==
    CASE kind = "none" -> chunk
      [] kind = "truncate" -> SubSeq(chunk, 1, Len(chunk) - 1)
      [] kind = "shrink" -> SubSeq(chunk, 1, Len(chunk) - 2)
      [] kind = "empty" -> <<>>
      [] kind = "badlen" -> [chunk EXCEPT ![2] = 1]

DamagedItem(i, kind) == [data |-> Damage(kind, chunks.val[i + 1]), idx |-> i]

LengthDamage == {"none", "truncate", "shrink", "empty"}
PrefixDamage == {"none", "badlen"}

Supplied == {input[k].idx : k \in 1..Len(input)}

\* the sequence xs with x inserted so that it becomes element number pos
InsertAt(xs, pos, x) == SubSeq(xs, 1, pos - 1) \o <<x>> \o SubSeq(xs, pos, Len(xs))

\* the elements of a set of numbers in increasing order
RECURSIVE Sorted(_)
Sorted(S) ==
    IF S = {} THEN <<>>
    ELSE LET m == CHOOSE a \in S : \A b \in S : a <= b
         IN  <<m>> \o Sorted(S \ {m})

InitLengths ==
    /\ pc = "start"
    /\ n_validators \in (1..MaxLenN) \cup {TestValidators}
    /\ block_data \in SeqsUpTo({0}, MaxData)
    /\ extrinsic = <<>>
    /\ chunks = Unused /\ input = <<>> /\ result = Unused
    /\ trie = Unused /\ yielded = Unused
    /\ shard_input = Unused /\ delivered = Unused /\ last_read = Unused

\* supply the chunk of a validator not supplied yet, possibly damaged
SupplyAnyOrder(i, kind) ==
    /\ pc = "encoded"
    /\ n_validators <= MaxLenN
    /\ i \notin Supplied
    /\ input' = Append(input, DamagedItem(i, kind))
    /\ UNCHANGED <<pc, n_validators, block_data, extrinsic, chunks, result, trie,
                   yielded, shard_input, delivered, last_read>>

\* scenario S6: chunks[0] without its last byte, as item number pos among
\* three other untouched chunks
SupplyS6(others, pos) ==
    /\ pc = "encoded"
    /\ n_validators = TestValidators
    /\ input = <<>>
    /\ Cardinality(others) = 3
    /\ input' = InsertAt([k \in 1..3 |-> Item(Sorted(others)[k])], pos,
                         DamagedItem(0, "truncate"))
    /\ UNCHANGED <<pc, n_validators, block_data, extrinsic, chunks, result, trie,
                   yielded, shard_input, delivered, last_read>>

NextLengths ==
    \/ ObtainChunks
    \/ \E i \in 0..(n_validators - 1), kind \in LengthDamage : SupplyAnyOrder(i, kind)
    \/ \E others \in SUBSET (1..(TestValidators - 1)), pos \in 1..4 : SupplyS6(others, pos)
    \/ Reconstruct

SpecLengths == InitLengths /\ [][NextLengths]_vars

---------------------------------------------------------------------------
(* Specification SpecPrefix: reconstruct from chunks some of which carry   *)
(* a damaged length prefix.                                                *)

InitPrefix ==
    /\ pc = "start"
    /\ n_validators \in 1..MaxPrefixN
    /\ block_data \in SeqsUpTo(PayloadBytes, MaxData)
    /\ extrinsic \in SeqsUpTo(PayloadBytes, MaxExt)
    /\ chunks = Unused /\ input = <<>> /\ result = Unused
    /\ trie = Unused /\ yielded = Unused
    /\ shard_input = Unused /\ delivered = Unused /\ last_read = Unused

SupplyMarked(i, kind) ==
    /\ pc = "encoded"
    /\ i > LastIdx
    /\ input' = Append(input, DamagedItem(i, kind))
    /\ UNCHANGED <<pc, n_validators, block_data, extrinsic, chunks, result, trie,
                   yielded, shard_input, delivered, last_read>>

NextPrefix ==
    \/ ObtainChunks
    \/ \E i \in 0..(n_validators - 1), kind \in PrefixDamage : SupplyMarked(i, kind)
    \/ Reconstruct

SpecPrefix == InitPrefix /\ [][NextPrefix]_vars

---------------------------------------------------------------------------
(* Specification SpecMerkle: commit to a chunk list, draw every branch,    *)
(* verify branches.                                                        *)

MerkleChunks(n, seed) == [i \in 1..n |-> << (seed * i) % 3, seed >>]

InitMerkle ==
    /\ pc = "start"
    /\ \E n \in 1..MaxChunks, seed \in 0..MaxSeed : chunks = MerkleChunks(n, seed)
    /\ n_validators = Len(chunks)
    /\ block_data = Unused /\ extrinsic = Unused /\ input = Unused
    /\ result = Unused /\ trie = Unused /\ yielded = <<>>
    /\ shard_input = Unused /\ delivered = Unused /\ last_read = Unused

Branches ==
    /\ pc = "start"
    /\ trie' = branches(chunks)
    /\ pc' = "iterating"
    /\ UNCHANGED <<n_validators, block_data, extrinsic, chunks, input, result,
                   yielded, shard_input, delivered, last_read>>

\* one call of the iterator's next()
BranchesNext ==
    /\ pc = "iterating"
    /\ LET r == Branches_next(trie)
       IN  /\ trie' = r.self
           /\ IF ~IsOk(r.item) THEN /\ pc' = "panicked"
                                     /\ yielded' = yielded
              ELSE IF r.item.val = None THEN /\ pc' = "collected"
                                             /\ yielded' = yielded
              ELSE /\ pc' = pc
                   /\ yielded' = Append(yielded, r.item.val[1])
    /\ UNCHANGED <<n_validators, block_data, extrinsic, chunks, input, result,
                   shard_input, delivered, last_read>>

\* branch_hash(root, proofs[j], index)
BranchHash(j, index) ==
    /\ pc = "collected"
    /\ result' = [proof |-> j, index |-> index,
                  hash |-> branch_hash(trie.root, yielded[j + 1][1], index)]
    /\ pc' = "verified"
    /\ UNCHANGED <<n_validators, block_data, extrinsic, chunks, input, trie,
                   yielded, shard_input, delivered, last_read>>

NextMerkle ==
    \/ Branches
    \/ BranchesNext
    \/ \E j \in 0..(Len(yielded) - 1), index \in 0..Len(chunks) : BranchHash(j, index)

SpecMerkle == InitMerkle /\ [][NextMerkle]_vars

---------------------------------------------------------------------------
(* Specification SpecInput: a ShardInput over a list of useful regions,    *)
(* read by a sequence of requests.  The bytes of the regions are numbered  *)
(* 1, 2, 3, ... in shard order, so that a skipped, repeated or reordered   *)
(* byte shows.                                                             *)

RECURSIVE Concat(_)
Concat(xs) == IF Len(xs) = 0 THEN <<>> ELSE Head(xs) \o Concat(Tail(xs))

RECURSIVE NumberedRegions(_, _)
NumberedRegions(lens, from) ==
    IF Len(lens) = 0 THEN <<>>
    ELSE << [k \in 1..Head(lens) |-> from + k] >>
         \o NumberedRegions(Tail(lens), from + Head(lens))

InitInput ==
    /\ pc = "reading"
    /\ \E lens \in SeqsUpTo(0..MaxRegion, MaxShards) : input = NumberedRegions(lens, 0)
    /\ shard_input = NewShardInput(input)
    /\ delivered = <<>>
    /\ last_read = [calls |-> 0, want |-> 0, before |-> 0, out |-> <<>>, returned |-> TRUE]
    /\ n_validators = Unused /\ block_data = Unused /\ extrinsic = Unused
    /\ chunks = Unused /\ result = Unused /\ trie = Unused /\ yielded = Unused

\* input.read(into) with into.len() = want
Read(want) ==
    /\ pc = "reading"
    /\ last_read.calls < MaxReads
    /\ LET r == ShardInput_read(shard_input, want)
       IN  /\ shard_input' = r.self
           /\ delivered' = delivered \o r.out
           /\ last_read' = [calls |-> last_read.calls + 1, want |-> want,
                            before |-> Len(Concat(input)) - Len(delivered),
                            out |-> r.out, returned |-> r.returned]
    /\ UNCHANGED <<pc, n_validators, block_data, extrinsic, chunks, input, result,
                   trie, yielded>>

NextInput == \E want \in 0..MaxRead : Read(want)

SpecInput == InitInput /\ [][NextInput]_vars

---------------------------------------------------------------------------
(* Claims about code_params (SpecParams).                                  *)

CeilDiv(a, b) == (a + b - 1) \div b
EvenUp(a) == IF a % 2 = 0 THEN a ELSE a + 1
\* data_shards as the specification states it
SpecDataShards(n) == ((n - 1) \div 3) + 1

---------------------------------------------------------------------------
(* Claims about obtain_chunks / reconstruct on untouched chunks            *)
(* (SpecCodec).                                                            *)

\* C1: reconstruct from any subset of at least data_shards untouched chunks
\* succeeds and returns the original (block_data, extrinsic), for every
\* n >= 1.
C1_RoundTrip ==
    (pc = "done" /\ IsOk(chunks) /\ Len(input) >= SpecDataShards(n_validators)) =>
        /\ IsOk(result)
        /\ result.val = <<block_data, extrinsic>>

C1_Witness ==
    /\ pc = "done"
    /\ n_validators = 7
    /\ Len(input) = 3
    /\ input[1].idx >= 3
    /\ Len(block_data) = 2 /\ Len(extrinsic) = 1
    /\ IsOk(result)
    /\ result.val = <<block_data, extrinsic>>

\* C2: reconstruct from any subset of fewer than data_shards untouched
\* chunks (the empty one included) fails with NotEnoughChunks.
C2_ErasureThreshold ==
    (pc = "done" /\ IsOk(chunks) /\ Len(input) < SpecDataShards(n_validators)) =>
        IsErr(result, "NotEnoughChunks")

C2_Witness ==
    /\ pc = "done"
    /\ n_validators = 4
    /\ Len(input) = 1
    /\ IsErr(result, "NotEnoughChunks")

\* C8: the per-shard data capacity used by obtain_chunks is
\* s = ceil(|P| / data_shards) and every chunk has length s + 4 rounded up
\* to the next even number.
C8_ShardLength ==
    (pc = "encoded" /\ IsOk(chunks)) =>
        \A j \in 1..Len(chunks.val) :
            Len(chunks.val[j]) =
                EvenUp(CeilDiv(Len(Encode(block_data, extrinsic)),
                               SpecDataShards(n_validators)) + 4)

---------------------------------------------------------------------------
(* Claims about the validation of supplied chunks (SpecLengths).           *)

Odd(a) == a % 2 = 1
SomeOdd == \E k \in 1..Len(input) : Odd(Len(input[k].data))
NotUniform ==
    \/ \E k, l \in 1..Len(input) : Len(input[k].data) # Len(input[l].data)
    \/ \E k \in 1..Len(input) : Len(input[k].data) = 0

\* C4 as stated: an input that contains a chunk of odd length, at any
\* position, makes reconstruct fail with UnevenLength.
C4_OddAnywhere ==
    (pc = "done" /\ IsOk(chunks) /\ SomeOdd) => IsErr(result, "UnevenLength")

\* C4 as amended: with an odd-length chunk among the supplied ones,
\* reconstruct fails with UnevenLength when the first supplied chunk has odd
\* length, and with NonUniformChunks when the first has even length and a
\* later one is odd.
C4_OddFirstOrLater ==
    (pc = "done" /\ IsOk(chunks) /\ SomeOdd) =>
        IF Odd(Len(input[1].data)) THEN IsErr(result, "UnevenLength")
        ELSE IsErr(result, "NonUniformChunks")

C4_Witness ==
    /\ pc = "done"
    /\ Len(input) = 3
    /\ ~Odd(Len(input[1].data)) /\ Len(input[1].data) > 0
    /\ Len(input[2].data) = Len(input[1].data)
    /\ Odd(Len(input[3].data))
    /\ IsErr(result, "NonUniformChunks")

\* C5 as stated: chunks that do not all have the same length, or one of
\* length zero, make reconstruct fail with NonUniformChunks in whatever
\* order they are supplied (scenario S6 included).
C5_NonUniformAnyOrder ==
    (pc = "done" /\ IsOk(chunks) /\ NotUniform) => IsErr(result, "NonUniformChunks")

\* C5 as amended: such chunks make reconstruct fail with NonUniformChunks
\* when the first supplied chunk has even length and with UnevenLength when
\* it has odd length (scenario S6: NonUniformChunks unless the truncated
\* chunks[0] is supplied first).
C5_NonUniformByFirst ==
    (pc = "done" /\ IsOk(chunks) /\ NotUniform) =>
        IF Odd(Len(input[1].data)) THEN IsErr(result, "UnevenLength")
        ELSE IsErr(result, "NonUniformChunks")

C5_Witness ==
    /\ pc = "done"
    /\ n_validators = TestValidators
    /\ Len(input) = 4
    /\ input[3].idx = 0
    /\ Len(input[3].data) = Len(input[1].data) - 1
    /\ IsErr(result, "NonUniformChunks")

---------------------------------------------------------------------------
(* Claims about the length prefix (SpecPrefix).                            *)

\* the 4-byte length prefix of shard x exceeds the bytes after it
BadPrefix(x) == Len(x) >= 4 /\ u32_decode(x)[1] > Len(x) - 4

\* C9: when, after the codec's reconstruction, one of the first data_shards
\* shards carries a length prefix greater than L - 4, reconstruct fails with
\* BadPayload.
C9_BadPrefixRejected ==
    (pc = "done" /\ IsOk(chunks)) =>
        LET rec == RecoverShards(n_validators, input)
        IN  (/\ IsOk(rec)
             /\ \E j \in 1..SpecDataShards(n_validators) : BadPrefix(rec.val[j][1]))
            => IsErr(result, "BadPayload")

---------------------------------------------------------------------------
(* Claims about the merkle commitment (SpecMerkle).                        *)

\* C3: the iterator of branches(chunks) yields, as item i for each i in
\* [0, n), the pair (proof_i, c_i), and branch_hash(root, proof_i, i)
\* succeeds with hash(c_i).
C3_MerkleSoundness ==
    /\ (pc \in {"iterating", "collected", "verified"}) =>
          /\ Len(yielded) <= Len(chunks)
          /\ \A i \in 1..Len(yielded) : yielded[i][2] = chunks[i]
    /\ (pc \in {"collected", "verified"}) => Len(yielded) = Len(chunks)
    /\ pc # "panicked"
    /\ (pc = "verified" /\ result.index = result.proof) =>
          /\ IsOk(result.hash)
          /\ result.hash.val = Blake2(chunks[result.index + 1])

C3_Witness ==
    /\ pc = "verified"
    /\ Len(chunks) = 17
    /\ result.index = 16 /\ result.proof = 16
    /\ IsOk(result.hash)
    /\ result.hash.val = Blake2(chunks[17])

\* C7 as stated: branch_hash(root, proofs[0], n) fails with
\* BranchOutOfBounds for every n >= 1.
C7_OutOfBounds ==
    (pc = "verified" /\ result.proof = 0 /\ result.index = Len(chunks)) =>
        IsErr(result.hash, "BranchOutOfBounds")

\* C7 as amended: branch_hash(root, proofs[0], n) never returns a hash; for
\* n < 256 it fails with BranchOutOfBounds when n <= 16 or n is a multiple
\* of 16, and with InvalidBranchProof otherwise, where the lookup of key n
\* needs a node that the proof of index 0 does not hold.
C7_OutOfBoundsOrInvalid ==
    (pc = "verified" /\ result.proof = 0 /\ result.index = Len(chunks)
        /\ Len(chunks) < 256) =>
        IF Len(chunks) <= 16 \/ Len(chunks) % 16 = 0
        THEN IsErr(result.hash, "BranchOutOfBounds")
        ELSE IsErr(result.hash, "InvalidBranchProof")

C7_Witness ==
    /\ pc = "verified"
    /\ result.proof = 0
    /\ result.index = Len(chunks)
    /\ Len(chunks) = 17
    /\ IsErr(result.hash, "InvalidBranchProof")

---------------------------------------------------------------------------
(* Claims about ShardInput (SpecInput).                                    *)

\* C10: every read call returns, after a bounded number of loop passes,
\* min(k, bytes not yet delivered) bytes, and the bytes delivered by
\* successive calls are, concatenated, a prefix of the concatenation of the
\* regions in shard order.
C10_LazyStream ==
    pc = "reading" =>
        /\ last_read.returned
        /\ Len(last_read.out) = Min(last_read.want, last_read.before)
        /\ Len(delivered) <= Len(Concat(input))
        /\ delivered = SubSeq(Concat(input), 1, Len(delivered))

C10_Witness ==
    /\ pc = "reading"
    /\ Len(input) = 3
    /\ Len(input[1]) = 1 /\ Len(input[2]) = 0 /\ Len(input[3]) = 2
    /\ last_read.calls = 2
    /\ last_read.want = 3 /\ last_read.before = 2
    /\ last_read.out = <<2, 3>>
    /\ delivered = <<1, 2, 3>>

===========================================================================
